---- MODULE Spec2Model ----
(***************************************************************************)
(* Model of GardenLightsReceiver.ino: the receiver of the garden lights.   *)
(* Two output channels (pins 3 and 5), each OFF / ON / PWM / PULSE, are    *)
(* driven by 15 byte text commands ("CODE CHNL VALU") received by radio;   *)
(* loop() either sleeps (sleep switch on and hour < 17) or polls the radio *)
(* and animates the channels that are in pulse mode.                       *)
(*                                                                         *)
(* The target is an Arduino Pro Mini (AVR): int is 16 bits, unsigned long  *)
(* is 32 bits.  Characters are one-character strings, a C string is the    *)
(* sequence of its characters before the terminating NUL.                  *)
(***************************************************************************)
EXTENDS Integers, Sequences, FiniteSets, TLC

(***************************************************************************)
(* Bounds of the model.                                                    *)
(***************************************************************************)
\* messages the radio delivers in one run
MaxMsgs == 4
\* of these, messages whose channel does not exist
MaxStray == 1
\* value of millis() up to which the short specification lets time advance
MaxNow == 3
\* the long run of one pulsing channel: the messages delivered, the
\* milliseconds after setup() in which they arrive, and the clock limit
PulseMaxMsgs == 8
PulseWindow == 2
PulseMaxNow == 515
\* the ramp of one pulsing channel at the default period: the late ticks
RampTicks == 258
\* the run across the wrap of millis(): the milliseconds before the wrap
\* at which it begins, and the clock limit
WrapLead == 2
WrapMaxNow == 1030

(***************************************************************************)
(* Program constants.                                                      *)
(***************************************************************************)
CHANNEL_ONE_PIN == 3
CHANNEL_TWO_PIN == 5
NUM_SLEEPS == 3
MODE_OFF == 0
MODE_ON == 1
MODE_PWM == 2
MODE_PULSE == 3
MODE_TEXT == <<"M", "O", "D", "E">>
POTS_TEXT == <<"P", "O", "T", "S">>
CHANNEL_OFFSET == 5
VALUE_OFFSET == 10
NUM_CHANNELS == 2
COMMAND_BUF_LEN == 16
LOW == 0
HIGH == 1
\* the hour before which the node may sleep
SLEEP_HOUR == 17

Channels == 0 .. (NUM_CHANNELS - 1)
Pins == {CHANNEL_ONE_PIN, CHANNEL_TWO_PIN}
NUL == "NUL"
Digits == {"0", "1", "2", "3", "4", "5", "6", "7", "8", "9"}

(***************************************************************************)
(* Machine arithmetic.                                                     *)
(***************************************************************************)
\* a value stored in a 16 bit int
ToInt16(x) == ((x + 32768) % 65536) - 32768
\* A 32 bit unsigned long is the pair <<high, low>> of its 16 bit halves:
\* the value is high * 65536 + low.
Half == 65536
\* (long unsigned) x, for an int x: the sign is extended
ToULong(x) == IF x >= 0 THEN <<0, x>> ELSE <<Half - 1, x + Half>>
\* a + d modulo 2^32, for 0 <= d < 65536
ULAdd(a, d) ==
  IF a[2] + d < Half THEN <<a[1], a[2] + d>>
                     ELSE <<(a[1] + 1) % Half, a[2] + d - Half>>
\* a - b modulo 2^32
ULSub(a, b) ==
  IF a[2] >= b[2] THEN <<(a[1] - b[1]) % Half, a[2] - b[2]>>
                  ELSE <<(a[1] - b[1] - 1) % Half, a[2] - b[2] + Half>>
\* the unsigned long of a natural number below 2^31
Millis(n) == <<n \div Half, n % Half>>
\* a > b, unsigned
ULGreater(a, b) == a[1] > b[1] \/ (a[1] = b[1] /\ a[2] > b[2])
\* C integer division: the quotient is truncated towards zero
CDiv(a, b) == IF a >= 0 THEN a \div b ELSE -((-a) \div b)

(***************************************************************************)
(* The command decoder: strncpy, atoi and strncmp as processCommand uses   *)
(* them.  Offsets are 0-based as in the source; sequences are 1-based.     *)
(***************************************************************************)
\* strncpy(dst, src, n): n characters, NUL padded after the end of src
Strncpy(src, n) == [i \in 1 .. n |-> IF i <= Len(src) THEN src[i] ELSE NUL]

\* the C string that starts at 0-based offset off of buffer b
RECURSIVE CStr(_, _)
CStr(b, off) ==
  IF off >= Len(b) \/ b[off + 1] = NUL
    THEN << >>
    ELSE <<b[off + 1]>> \o CStr(b, off + 1)

DigitVal(c) ==
  CASE c = "0" -> 0 [] c = "1" -> 1 [] c = "2" -> 2 [] c = "3" -> 3
    [] c = "4" -> 4 [] c = "5" -> 5 [] c = "6" -> 6 [] c = "7" -> 7
    [] c = "8" -> 8 [] c = "9" -> 9

\* the digits at the head of s, accumulated onto acc
RECURSIVE AtoiDigits(_, _)
AtoiDigits(s, acc) ==
  IF s = << >> \/ s[1] \notin Digits
    THEN acc
    ELSE AtoiDigits(Tail(s), acc * 10 + DigitVal(s[1]))

RECURSIVE SkipSpace(_)
SkipSpace(s) == IF s # << >> /\ s[1] = " " THEN SkipSpace(Tail(s)) ELSE s

\* atoi: leading blanks, an optional sign, then digits up to the first
\* character that is no digit; the result is an int
Atoi(s) ==
  LET t == SkipSpace(s)
  IN  IF t # << >> /\ t[1] = "-" THEN ToInt16(-AtoiDigits(Tail(t), 0))
      ELSE IF t # << >> /\ t[1] = "+" THEN ToInt16(AtoiDigits(Tail(t), 0))
      ELSE ToInt16(AtoiDigits(t, 0))

\* strncmp(buf, text, 4) == 0
CodeIs(buf, text) == Strncpy(buf, 4) = text

\* the value processCommand reads: atoi(command_buf + VALUE_OFFSET)
DecodeValue(buf) == Atoi(CStr(Strncpy(buf, COMMAND_BUF_LEN), VALUE_OFFSET))

\* DecodeChannel without the step to a zero based index
DecodeChannelOneBased(buf) ==
  LET cut == [Strncpy(buf, COMMAND_BUF_LEN) EXCEPT ![VALUE_OFFSET + 1] = NUL]
  IN  Atoi(CStr(cut, CHANNEL_OFFSET))

\* the channel processCommand reads, after command_buf[VALUE_OFFSET] = '\0':
\* atoi(command_buf + CHANNEL_OFFSET) - 1
DecodeChannel(buf) ==
  LET cut == [Strncpy(buf, COMMAND_BUF_LEN) EXCEPT ![VALUE_OFFSET + 1] = NUL]
  IN  ToInt16(Atoi(CStr(cut, CHANNEL_OFFSET)) - 1)

\* DecodeKind with every other code taken for a mode change
DecodeKindDefaultMode(buf) ==
  IF CodeIs(buf, POTS_TEXT) THEN "POT_CHANGE" ELSE "MODE_CHANGE"

\* the branch of processCommand the code of the message selects
DecodeKind(buf) ==
  IF CodeIs(buf, MODE_TEXT) THEN "MODE_CHANGE"
  ELSE IF CodeIs(buf, POTS_TEXT) THEN "POT_CHANGE"
  ELSE "NONE"

Decode(buf) ==
  [kind |-> DecodeKind(buf), channel |-> DecodeChannel(buf),
   value |-> DecodeValue(buf)]

(***************************************************************************)
(* The state of the program.                                               *)
(***************************************************************************)
VARIABLES
  channel_mode,         \* int channel_mode[NUM_CHANNELS]
  channel_pwm,          \* int channel_pwm[NUM_CHANNELS]
  channel_pulse,        \* int channel_pulse[NUM_CHANNELS]: ms between steps
  channel_time,         \* unsigned long channel_time[NUM_CHANNELS]
  channel_pulse_value,  \* int channel_pulse_value[NUM_CHANNELS]
  channel_pulse_inc,    \* int channel_pulse_inc[NUM_CHANNELS]
  pin,                  \* what each output pin was last driven to
  now,                  \* millis()
  pc,                   \* position of loop(): "loop", "animate" or "sleep"
  sleeps,               \* the counter i of the powerDown loop
  received,             \* messages received so far
  strays,               \* of these, messages whose channel does not exist
  writes,               \* the pin writes of the last step, in order
  ev,                   \* what the last step did
  epoch                 \* millis() when the observed run began

vars == <<channel_mode, channel_pwm, channel_pulse, channel_time,
          channel_pulse_value, channel_pulse_inc, pin, now, pc, sleeps,
          received, strays, writes, ev, epoch>>

channel_pins == [c \in Channels |-> IF c = 0 THEN CHANNEL_ONE_PIN
                                             ELSE CHANNEL_TWO_PIN]

\* millis() when setup() returns: it has waited in two delay(1000)
SETUP_MILLIS == <<0, 2000>>

Digital(lv) == [kind |-> "digital", level |-> lv]
Analog(duty) == [kind |-> "analog", level |-> duty]

(***************************************************************************)
(* The channel arrays and the pins as one record, so that the handlers are *)
(* functions from store to store.                                          *)
(***************************************************************************)
Cur ==
  [mode |-> channel_mode, pwm |-> channel_pwm, pulse |-> channel_pulse,
   time |-> channel_time, pvalue |-> channel_pulse_value,
   pinc |-> channel_pulse_inc, pin |-> pin, writes |-> << >>]

Store(S) ==
  /\ channel_mode' = S.mode
  /\ channel_pwm' = S.pwm
  /\ channel_pulse' = S.pulse
  /\ channel_time' = S.time
  /\ channel_pulse_value' = S.pvalue
  /\ channel_pulse_inc' = S.pinc
  /\ pin' = S.pin
  /\ writes' = S.writes

digitalWrite(S, p, lv) ==
  [S EXCEPT !.pin[p] = Digital(lv),
            !.writes = Append(@, [pin |-> p, out |-> Digital(lv)])]

analogWrite(S, p, duty) ==
  [S EXCEPT !.pin[p] = Analog(duty),
            !.writes = Append(@, [pin |-> p, out |-> Analog(duty)])]

\* the record of one channel, for the log of the last step
ChannelOf(S, c) ==
  [mode |-> S.mode[c], pwm |-> S.pwm[c], pulse |-> S.pulse[c],
   time |-> S.time[c], pvalue |-> S.pvalue[c], pinc |-> S.pinc[c]]

NoChannel ==
  [mode |-> 0, pwm |-> 0, pulse |-> 0, time |-> <<0, 0>>, pvalue |-> 0,
   pinc |-> 0]

NoCmd == [kind |-> "NONE", channel |-> 0, value |-> 0]

\* op: the step taken; buf, cmd: the message and its decoding; indexed: the
\* array indices processCommand used; before: the addressed channel before
\* the step; stepped: the channels the animator stepped; hour, button: the
\* inputs loop() read in that step
Event(op, buf, cmd, indexed, before, stepped, hour, button) ==
  [op |-> op, buf |-> buf, cmd |-> cmd, indexed |-> indexed,
   before |-> before, stepped |-> stepped, hour |-> hour,
   button |-> button]

(***************************************************************************)
(* setup(): both pins tested high then driven low, every channel OFF with  *)
(* pwm 255 and pulse 1024; the other arrays are zero initialised globals.  *)
(***************************************************************************)
Init ==
  /\ channel_mode = [c \in Channels |-> MODE_OFF]
  /\ channel_pwm = [c \in Channels |-> 255]
  /\ channel_pulse = [c \in Channels |-> 1024]
  /\ channel_time = [c \in Channels |-> <<0, 0>>]
  /\ channel_pulse_value = [c \in Channels |-> 0]
  /\ channel_pulse_inc = [c \in Channels |-> 0]
  /\ pin = [p \in Pins |-> Digital(LOW)]
  /\ now = SETUP_MILLIS
  /\ epoch = SETUP_MILLIS
  /\ pc = "loop"
  /\ sleeps = 0
  /\ received = 0
  /\ strays = 0
  /\ writes = << >>
  /\ ev = Event("setup", << >>, NoCmd, {}, NoChannel, {}, 0, HIGH)

(***************************************************************************)
(* processCommand, for a channel index inside the arrays.                  *)
(***************************************************************************)
\* channel_mode[channel]++, back to MODE_OFF past MODE_PULSE
NextMode(m) ==
  LET m1 == ToInt16(m + 1)
  IN  IF m1 > MODE_PULSE THEN MODE_OFF ELSE m1

\* EnterMode with the pulse value left as the last stay in PULSE left it
EnterModeKeepValue(S, c, t) ==
  LET m == S.mode[c]
      S1 == IF m = MODE_OFF THEN digitalWrite(S, channel_pins[c], LOW) ELSE S
      S2 == IF m = MODE_ON THEN digitalWrite(S1, channel_pins[c], HIGH) ELSE S1
      S3 == IF m = MODE_PWM
              THEN analogWrite(S2, channel_pins[c], S2.pwm[c]) ELSE S2
  IN  IF m = MODE_PULSE
        THEN [S3 EXCEPT !.time[c] = t, !.pinc[c] = 1]
        ELSE S3

\* EnterMode with PWM entered at full duty instead of channel_pwm
EnterModeFullDuty(S, c, t) ==
  LET m == S.mode[c]
      S1 == IF m = MODE_OFF THEN digitalWrite(S, channel_pins[c], LOW) ELSE S
      S2 == IF m = MODE_ON THEN digitalWrite(S1, channel_pins[c], HIGH) ELSE S1
      S3 == IF m = MODE_PWM
              THEN analogWrite(S2, channel_pins[c], 255) ELSE S2
  IN  IF m = MODE_PULSE
        THEN [S3 EXCEPT !.time[c] = t, !.pvalue[c] = 0, !.pinc[c] = 1]
        ELSE S3

\* the side effect of the mode the channel is now in
EnterMode(S, c, t) ==
  LET m == S.mode[c]
      S1 == IF m = MODE_OFF THEN digitalWrite(S, channel_pins[c], LOW) ELSE S
      S2 == IF m = MODE_ON THEN digitalWrite(S1, channel_pins[c], HIGH) ELSE S1
      S3 == IF m = MODE_PWM
              THEN analogWrite(S2, channel_pins[c], S2.pwm[c]) ELSE S2
  IN  IF m = MODE_PULSE
        THEN [S3 EXCEPT !.time[c] = t, !.pvalue[c] = 0, !.pinc[c] = 1]
        ELSE S3

\* ModeChange with every channel advanced, not the one addressed
ModeChangeAll(S, c, t) ==
  LET Advance(X, k) ==
        EnterMode([X EXCEPT !.mode[k] = NextMode(X.mode[k])], k, t)
  IN  Advance(Advance(S, 0), 1)

\* channel_mode[channel]++, wrapped, and the side effects of the new mode
ModeChange(S, c, t) ==
  EnterMode([S EXCEPT !.mode[c] = NextMode(S.mode[c])], c, t)

\* PotLevel with the division left out
PotLevelUnscaled(value) == value

\* the level a potentiometer reading sets: value / 4
PotLevel(value) == CDiv(value, 4)

\* PotChange with the PWM level taken in every mode but PULSE
PotChangeAnyMode(S, c, value) ==
  IF S.mode[c] = MODE_PULSE
    THEN [S EXCEPT !.pulse[c] = PotLevel(value)]
    ELSE analogWrite([S EXCEPT !.pwm[c] = PotLevel(value)],
                     channel_pins[c], PotLevel(value))

\* PotChange with the duty written in pulse mode as well
PotChangeWritesInPulse(S, c, value) ==
  LET S1 == IF S.mode[c] = MODE_PWM
              THEN analogWrite([S EXCEPT !.pwm[c] = PotLevel(value)],
                               channel_pins[c], PotLevel(value))
              ELSE S
  IN  IF S1.mode[c] = MODE_PULSE
        THEN analogWrite([S1 EXCEPT !.pulse[c] = PotLevel(value)],
                         channel_pins[c], PotLevel(value))
        ELSE S1

PotChange(S, c, value) ==
  LET S1 == IF S.mode[c] = MODE_PWM
              THEN analogWrite([S EXCEPT !.pwm[c] = PotLevel(value)],
                               channel_pins[c], PotLevel(value))
              ELSE S
  IN  IF S1.mode[c] = MODE_PULSE
        THEN [S1 EXCEPT !.pulse[c] = PotLevel(value)]
        ELSE S1

(***************************************************************************)
(* processCommand with a channel index outside the arrays.  The source     *)
(* has no bounds check: channel_mode[channel] and the other arrays are     *)
(* read and written past their ends, which is undefined behaviour.  The    *)
(* arrays are adjacent globals, so the stray access may land on any cell   *)
(* of them, or on memory that is not modelled; a stray pin number may be   *)
(* one of the two output pins.  The outcomes are a nondeterministic        *)
(* choice: nothing modelled changes, or one cell takes a value the code    *)
(* writes on that path, or one output pin is written.                      *)
(***************************************************************************)
IntArrays == {"mode", "pwm", "pulse", "pvalue", "pinc"}

\* channel_mode[channel]++, channel_pulse_value[channel] = 0 or
\* channel_pulse_inc[channel] = 1 lands on a cell, channel_time[channel] =
\* millis() on a time, or the digitalWrite on a pin
OutOfBoundsMode(S, t) ==
  {S}
  \cup UNION {{[S EXCEPT ![f][c] = v] : v \in {NextMode(S[f][c]), 0, 1}} :
                f \in IntArrays, c \in Channels}
  \cup {[S EXCEPT !.time[c] = t] : c \in Channels}
  \cup {digitalWrite(S, p, lv) : p \in Pins, lv \in {LOW, HIGH}}

\* channel_pwm[channel] or channel_pulse[channel] = value / 4 lands on a
\* cell, or the analogWrite on a pin
OutOfBoundsPots(S, value) ==
  {S}
  \cup {[S EXCEPT ![f][c] = PotLevel(value)] :
          f \in IntArrays, c \in Channels}
  \cup {analogWrite(S, p, PotLevel(value)) : p \in Pins}

(***************************************************************************)
(* The messages the radio delivers.                                        *)
(***************************************************************************)
SP == <<" ">>
Wire(code, chan, val) == code \o SP \o chan \o val

\* the messages the transmitter is taken to send: mode changes and pot
\* changes for both channels, channels that do not exist, unknown codes,
\* readings outside 0 .. 1023
Messages ==
  { Wire(MODE_TEXT, <<"1", " ", " ", " ", " ">>, <<"0">>),
    Wire(MODE_TEXT, <<"2", " ", " ", " ", " ">>, <<"7">>),
    Wire(POTS_TEXT, <<"1", " ", " ", " ", " ">>, <<"2">>),
    Wire(POTS_TEXT, <<"1", " ", " ", " ", " ">>, <<"5", "1", "2">>),
    Wire(POTS_TEXT, <<"2", " ", " ", "5", "1">>, <<"2">>),
    Wire(MODE_TEXT, <<"3", " ", " ", " ", " ">>, <<"0">>),
    Wire(POTS_TEXT, <<"0", " ", " ", " ", " ">>, <<"2", "0">>),
    Wire(<<"S", "T", "O", "P">>, <<"1", " ", " ", " ", " ">>, <<"0">>),
    Wire(<<"M", "O", "D", "S">>, <<"3", " ", " ", " ", " ">>,
         <<"5", "1", "2">>),
    Wire(POTS_TEXT, <<"1", " ", " ", " ", " ">>, <<"2", "0", "0", "0">>),
    Wire(POTS_TEXT, <<"2", " ", " ", " ", " ">>, <<"-", "8">>) }

\* the messages of the long run: for channels that exist
PulseMessages ==
  { Wire(MODE_TEXT, <<"1", " ", " ", " ", " ">>, <<"0">>),
    Wire(MODE_TEXT, <<"2", " ", " ", " ", " ">>, <<"7">>),
    Wire(POTS_TEXT, <<"1", " ", " ", " ", " ">>, <<"2">>),
    Wire(POTS_TEXT, <<"2", " ", " ", "5", "1">>, <<"2">>) }

\* what processCommand decodes from each message
Decoded == [buf \in Messages \cup PulseMessages |-> Decode(buf)]

\* the messages whose channel exists or that processCommand ignores
InRange(buf) == Decoded[buf].kind = "NONE" \/ Decoded[buf].channel \in Channels


\* the stores processCommand(buf) can leave, called at time t
processCommand(S, buf, t) ==
  LET cmd == Decoded[buf]
  IN  IF cmd.kind = "MODE_CHANGE"
        THEN IF cmd.channel \in Channels
               THEN {ModeChange(S, cmd.channel, t)}
               ELSE OutOfBoundsMode(S, t)
      ELSE IF cmd.kind = "POT_CHANGE"
        THEN IF cmd.channel \in Channels
               THEN {PotChange(S, cmd.channel, cmd.value)}
               ELSE OutOfBoundsPots(S, cmd.value)
      ELSE {S}

\* the array indices processCommand(buf) uses
IndexedBy(buf) ==
  IF Decoded[buf].kind = "NONE" THEN {} ELSE {Decoded[buf].channel}

(***************************************************************************)
(* The pulse animator of loop().                                           *)
(***************************************************************************)
\* PulseStep with the direction turned on reaching a boundary (>=, <=)
PulseStepFlipOnReach(v, d) ==
  LET v1 == ToInt16(v + d)
      a == IF v1 >= 255 THEN [value |-> 255, inc |-> -1]
                        ELSE [value |-> v1, inc |-> d]
  IN  IF a.value <= 0 THEN [value |-> 0, inc |-> 1] ELSE a

\* PulseStep with the upper clamp left out
PulseStepNoClamp(v, d) ==
  LET v1 == ToInt16(v + d)
  IN  IF v1 < 0 THEN [value |-> 0, inc |-> 1] ELSE [value |-> v1, inc |-> d]

\* PulseStep with the direction kept at the upper clamp
PulseStepNoTurn(v, d) ==
  LET v1 == ToInt16(v + d)
      a == IF v1 > 255 THEN [value |-> 255, inc |-> d]
                       ELSE [value |-> v1, inc |-> d]
  IN  IF a.value < 0 THEN [value |-> 0, inc |-> 1] ELSE a

\* channel_pulse_value += channel_pulse_inc, kept inside 0 .. 255
PulseStep(v, d) ==
  LET v1 == ToInt16(v + d)
      a == IF v1 > 255 THEN [value |-> 255, inc |-> -1]
                       ELSE [value |-> v1, inc |-> d]
  IN  IF a.value < 0 THEN [value |-> 0, inc |-> 1] ELSE a

\* PulseDue with a step as soon as the period has passed (>=)
PulseDueAtPeriod(S, c, t) ==
  ~ULGreater(ToULong(S.pulse[c]), ULSub(t, S.time[c]))

\* PulseDue as a deadline: millis() > channel_time[c] + channel_pulse[c]
PulseDueDeadline(S, c, t) ==
  ULGreater(t, ULAdd(S.time[c], S.pulse[c] % Half))

\* (millis() - channel_time[c]) > (long unsigned) channel_pulse[c]
PulseDue(S, c, t) == ULGreater(ULSub(t, S.time[c]), ToULong(S.pulse[c]))

\* Stepping with the test of the mode left out
SteppingAnyMode(S, c, t) == PulseDue(S, c, t)

\* the two nested ifs of the animator: the channel is stepped now
Stepping(S, c, t) == S.mode[c] = MODE_PULSE /\ PulseDue(S, c, t)

Animate(S, c, t) ==
  IF Stepping(S, c, t)
    THEN LET n == PulseStep(S.pvalue[c], S.pinc[c])
         IN  [analogWrite([S EXCEPT !.pvalue[c] = n.value, !.pinc[c] = n.inc],
                          channel_pins[c], n.value)
                EXCEPT !.time[c] = t]
    ELSE S

\* the for loop over the channels, in order
AnimateAll(S, t) == Animate(Animate(S, 0, t), 1, t)

(***************************************************************************)
(* The inputs of loop().                                                   *)
(***************************************************************************)
\* hours the clock is read at: around the hour loop() tests against
Hours == {SLEEP_HOUR - 1, SLEEP_HOUR}

\* the sleep switch pulls its pin LOW when it is on
Buttons == {LOW, HIGH}

\* milliseconds that pass between two reads of millis()
Deltas == {0, 1}

\* milliseconds between two reads of millis() in a tick that comes late:
\* more than the pulse period setup() leaves
LateMillis == 1024 + 1
LateDeltas == {LateMillis}

\* millis() at the next read, d milliseconds later for a d of deltas or
\* none, not past epoch + limit
ClockOf(deltas, limit) ==
  {now} \cup {t \in {ULAdd(now, d) : d \in deltas} :
                ~ULGreater(ULSub(t, epoch), Millis(limit))}

Clock(limit) == ClockOf(Deltas, limit)

SleepWanted(hour, button) == button = LOW /\ hour < SLEEP_HOUR

(***************************************************************************)
(* loop(), first part: the sleep branch entered.  Both pins are driven low *)
(* and the powerDown loop starts.                                          *)
(***************************************************************************)
\* AllOff with the second write forgotten
AllOffFirstOnly(S) == digitalWrite(S, CHANNEL_ONE_PIN, LOW)

\* AllOff with the modes set to OFF as well
AllOffResetModes(S) ==
  [digitalWrite(digitalWrite(S, CHANNEL_ONE_PIN, LOW), CHANNEL_TWO_PIN, LOW)
     EXCEPT !.mode = [c \in Channels |-> MODE_OFF]]

\* digitalWrite(CHANNEL_ONE_PIN, LOW); digitalWrite(CHANNEL_TWO_PIN, LOW)
AllOff(S) ==
  digitalWrite(digitalWrite(S, CHANNEL_ONE_PIN, LOW), CHANNEL_TWO_PIN, LOW)

LoopSleep ==
  /\ pc = "loop"
  /\ \E hour \in Hours, button \in Buttons :
       /\ SleepWanted(hour, button)
       /\ Store(AllOff(Cur))
       /\ ev' = Event("sleep", << >>, NoCmd, {}, NoChannel, {},
                      hour, button)
  /\ pc' = "sleep"
  /\ sleeps' = 0
  /\ UNCHANGED <<now, received, strays, epoch>>

\* one LowPower.powerDown(SLEEP_8S, ...): timer 0 is stopped, millis() does
\* not advance; after the last one loop() returns
PowerDown ==
  /\ pc = "sleep"
  /\ sleeps < NUM_SLEEPS
  /\ sleeps' = sleeps + 1
  /\ pc' = IF sleeps + 1 < NUM_SLEEPS THEN "sleep" ELSE "loop"
  /\ writes' = << >>
  /\ ev' = Event("powerDown", << >>, NoCmd, {}, NoChannel, {},
                 0, HIGH)
  /\ UNCHANGED <<channel_mode, channel_pwm, channel_pulse, channel_time,
                 channel_pulse_value, channel_pulse_inc, pin, now, received,
                 strays, epoch>>

(***************************************************************************)
(* loop(), else branch, first half: the radio is polled.                   *)
(***************************************************************************)
\* manager.available() or recvfromAck() false: nothing is dispatched
PollNone(limit) ==
  /\ pc = "loop"
  /\ \E hour \in Hours, button \in Buttons, t \in Clock(limit) :
       /\ ~SleepWanted(hour, button)
       /\ now' = t
       /\ ev' = Event("poll", << >>, NoCmd, {}, NoChannel, {},
                      hour, button)
  /\ Store(Cur)
  /\ pc' = "animate"
  /\ UNCHANGED <<sleeps, received, strays, epoch>>

\* a message is received and dispatched by processCommand
\* msgs: the messages that may arrive; window: the milliseconds after
\* setup() in which they arrive
PollMessage(limit, window, msgs, maxMsgs, maxStray) ==
  /\ pc = "loop"
  /\ received < maxMsgs
  /\ ~ULGreater(ULSub(now, epoch), Millis(window))
  /\ \E hour \in Hours, button \in Buttons, t \in Clock(limit),
        buf \in msgs :
       /\ ~SleepWanted(hour, button)
       /\ InRange(buf) \/ strays < maxStray
       /\ strays' = IF InRange(buf) THEN strays ELSE strays + 1
       /\ now' = t
       /\ \E S \in processCommand(Cur, buf, t) : Store(S)
       /\ ev' = Event("command", buf, Decoded[buf], IndexedBy(buf),
                      IF Decoded[buf].channel \in Channels
                        THEN ChannelOf(Cur, Decoded[buf].channel)
                        ELSE NoChannel,
                      {}, hour, button)
  /\ received' = received + 1
  /\ pc' = "animate"
  /\ UNCHANGED <<sleeps, epoch>>

(***************************************************************************)
(* loop(), else branch, second half: the pulse animator.                   *)
(***************************************************************************)
\* the for loop run with millis() reading t
AnimateAt(t) ==
  /\ pc = "animate"
  /\ now' = t
  /\ Store(AnimateAll(Cur, t))
  /\ ev' = Event("animate", << >>, NoCmd, {}, NoChannel,
                 {c \in Channels : Stepping(Cur, c, t)}, 0, HIGH)
  /\ pc' = "loop"
  /\ UNCHANGED <<sleeps, received, strays, epoch>>

LoopAnimate(limit) == \E t \in Clock(limit) : AnimateAt(t)

Next ==
  \/ LoopSleep
  \/ PowerDown
  \/ PollNone(MaxNow)
  \/ PollMessage(MaxNow, MaxNow, Messages, MaxMsgs, MaxStray)
  \/ LoopAnimate(MaxNow)

Spec == Init /\ [][Next]_vars

(***************************************************************************)
(* The long run: the sleep switch is off, the channels are commanded in   *)
(* the first milliseconds with messages for channels that exist, and then  *)
(* the animator runs for as long as a whole pulse cycle takes at the       *)
(* shortest period.                                                        *)
(***************************************************************************)
NextPulse ==
  \/ PollNone(PulseWindow)
  \/ PollMessage(PulseWindow, PulseWindow, PulseMessages, PulseMaxMsgs, 0)
  \/ LoopAnimate(PulseMaxNow)

SpecPulse == Init /\ [][NextPulse]_vars

(***************************************************************************)
(* The ramp: channel one is the only channel commanded, in the first       *)
(* milliseconds; the pulse period stays the 1024 ms of setup().  Ticks     *)
(* that come LateDeltas after the one before carry the clock through a     *)
(* whole ramp.  loop() is called for ever and the clock advances: a late   *)
(* tick that stays possible does come.                                     *)
(***************************************************************************)
\* the message of the ramp: a mode change for channel one
RampMessages == {Wire(MODE_TEXT, <<"1", " ", " ", " ", " ">>, <<"0">>)}

\* how far the clock of the ramp runs
RampMaxNow == PulseWindow + RampTicks * LateMillis

\* the animator in a tick that comes late
LateAnimate(limit) ==
  \E t \in ClockOf(LateDeltas, limit) \ {now} : AnimateAt(t)

NextRamp ==
  \/ PollNone(PulseWindow)
  \/ PollMessage(PulseWindow, PulseWindow, RampMessages, MaxMsgs, 0)
  \/ LoopAnimate(PulseWindow)
  \/ LateAnimate(RampMaxNow)

SpecRamp ==
  /\ Init
  /\ [][NextRamp]_vars
  /\ WF_vars(NextRamp)
  /\ SF_vars(LateAnimate(RampMaxNow))

(***************************************************************************)
(* The run across the wrap of millis(), 2^32 ms (49.7 days) after the      *)
(* start.  A tick with the sleep switch off, no message and no channel in  *)
(* PULSE mode changes nothing but the clock: the ticks of the days up to   *)
(* WrapLead ms before the wrap are taken in one step.  Channel one is then *)
(* commanded as in the long run.                                           *)
(***************************************************************************)
\* millis() WrapLead ms before it wraps to 0
WrapEve == ULSub(<<0, 0>>, Millis(WrapLead))

\* the messages of the run across the wrap: for channel one
WrapMessages ==
  { Wire(MODE_TEXT, <<"1", " ", " ", " ", " ">>, <<"0">>),
    Wire(POTS_TEXT, <<"1", " ", " ", " ", " ">>, <<"2">>),
    Wire(POTS_TEXT, <<"1", " ", " ", " ", " ">>, <<"5", "1", "2">>) }

\* the idle ticks up to the eve of the wrap
IdleUntilWrap ==
  /\ pc = "loop"
  /\ epoch = SETUP_MILLIS
  /\ \A c \in Channels : channel_mode[c] # MODE_PULSE
  /\ now' = WrapEve
  /\ epoch' = WrapEve
  /\ Store(Cur)
  /\ ev' = Event("idle", << >>, NoCmd, {}, NoChannel, {}, SLEEP_HOUR, HIGH)
  /\ UNCHANGED <<pc, sleeps, received, strays>>

NextWrap ==
  \/ IdleUntilWrap
  \/ PollNone(PulseWindow)
  \/ PollMessage(PulseWindow, PulseWindow, WrapMessages, MaxMsgs, 0)
  \/ LoopAnimate(WrapMaxNow)

SpecWrap == Init /\ [][NextWrap]_vars

(***************************************************************************)
(* Properties.                                                              *)
(***************************************************************************)
Modes == {MODE_OFF, MODE_ON, MODE_PWM, MODE_PULSE}

\* the last step dispatched a command of this kind to a channel that exists
Dispatched(kind) ==
  /\ ev.op = "command"
  /\ ev.cmd.kind = kind
  /\ ev.cmd.channel \in Channels

\* the same, of the step being taken
DispatchedNext(kind) ==
  /\ ev'.op = "command"
  /\ ev'.cmd.kind = kind
  /\ ev'.cmd.channel \in Channels

\* the step being taken dispatches a command to a channel that does not exist
StrayNext ==
  /\ ev'.op = "command"
  /\ ev'.cmd.kind # "NONE"
  /\ ev'.cmd.channel \notin Channels

RecordsUnchanged ==
  UNCHANGED <<channel_mode, channel_pwm, channel_pulse, channel_time,
              channel_pulse_value, channel_pulse_inc>>

\* C1: every channel's mode is one of OFF, ON, PWM, PULSE after any sequence
\* of commands, and a MODE_CHANGE for a channel that exists leaves it in the
\* mode that follows, in the cycle OFF -> ON -> PWM -> PULSE -> OFF, the
\* mode it was in, whatever the value field is.
C1_ModeCycle ==
  /\ \A c \in Channels : channel_mode[c] \in Modes
  /\ Dispatched("MODE_CHANGE") =>
       channel_mode[ev.cmd.channel] = (ev.before.mode + 1) % 4

\* C2: a command whose channel index is outside 0 .. NUM_CHANNELS - 1 is
\* discarded: processCommand indexes no array with it, changes no channel
\* record and writes no pin.
C2_StrayDiscarded ==
  [][StrayNext =>
       /\ ev'.indexed = {}
       /\ RecordsUnchanged
       /\ writes' = << >>
       /\ pin' = pin]_vars

\* the example messages of the wire format
ExampleMode == <<"M", "O", "D", "E", " ", "1", " ", " ", " ", " ", "0">>
ExamplePots == <<"P", "O", "T", "S", " ", "2", " ", " ", "5", "1", "2">>

\* C3, as claimed: "MODE 1    0" decodes to MODE_CHANGE for channel index 0
\* and "POTS 2  512" to POT_CHANGE for channel index 1 with value 512.
C3_ExamplesAsClaimed ==
  ev.op = "command" =>
    /\ ev.buf = ExampleMode =>
         ev.cmd.kind = "MODE_CHANGE" /\ ev.cmd.channel = 0
    /\ ev.buf = ExamplePots =>
         ev.cmd = [kind |-> "POT_CHANGE", channel |-> 1, value |-> 512]

\* C3, amended: "MODE 1    0" decodes to MODE_CHANGE for channel index 0
\* (value 0); "POTS 2  512" decodes to POT_CHANGE for channel index 1 with
\* value 2, the digit at offset 10, because its "512" starts at offset 8; a
\* message with 512 from offset 10 on, "POTS 1    512", decodes to value 512.
C3_Examples ==
  ev.op = "command" =>
    /\ ev.buf = ExampleMode =>
         ev.cmd = [kind |-> "MODE_CHANGE", channel |-> 0, value |-> 0]
    /\ ev.buf = ExamplePots =>
         ev.cmd = [kind |-> "POT_CHANGE", channel |-> 1, value |-> 2]
    /\ ev.buf = <<"P", "O", "T", "S", " ", "1", " ", " ", " ", " ",
                  "5", "1", "2">> =>
         ev.cmd = [kind |-> "POT_CHANGE", channel |-> 0, value |-> 512]

C3_Witness == ev.op = "command" /\ ev.buf = ExamplePots /\ received = 1

AllLow(p) == \A q \in Pins : p[q] = Digital(LOW)

\* C4: a tick that finds the sleep switch on and the hour below 17 takes the
\* sleep branch: it drives both pins low, receives no message and steps no
\* channel; until the last powerDown has returned nothing but powerDown
\* happens, both pins stay low and no channel record changes.
C4_Sleeping ==
  [][/\ (/\ ev'.op \in {"sleep", "poll", "command"}
         /\ ev'.button = LOW
         /\ ev'.hour < SLEEP_HOUR) =>
          /\ ev'.op = "sleep"
          /\ pc' = "sleep"
          /\ AllLow(pin')
          /\ received' = received
          /\ RecordsUnchanged
     /\ pc = "sleep" =>
          /\ AllLow(pin)
          /\ ev'.op = "powerDown"
          /\ AllLow(pin')
          /\ received' = received
          /\ RecordsUnchanged]_vars

\* the node has slept through all its powerDowns with channel one ON and
\* channel two in PWM mode
C4_Witness ==
  /\ ev.op = "powerDown"
  /\ sleeps = NUM_SLEEPS
  /\ channel_mode[0] = MODE_ON
  /\ channel_mode[1] = MODE_PWM
  /\ AllLow(pin)

\* C5, as claimed: an animator step that brings pulse_value to 255 leaves
\* the direction -1, and one that brings it to 0 leaves the direction +1.
C5_FlipOnReaching ==
  ev.op = "animate" =>
    \A c \in ev.stepped :
      /\ channel_pulse_value[c] = 255 => channel_pulse_inc[c] = -1
      /\ channel_pulse_value[c] = 0 => channel_pulse_inc[c] = 1

\* C5, amended: the direction flips in the step that would take pulse_value
\* past the boundary, not in the step that reaches it.  A step from 254
\* upwards gives 255 and leaves the direction +1; the next step leaves 255
\* and sets the direction to -1; the one after gives 254.  A step from 1
\* downwards gives 0 and leaves the direction -1; the next step leaves 0 and
\* sets the direction to +1.  So pulse_value holds each boundary value over
\* two consecutive steps and the direction flips once at each boundary.
C5_FlipPastBoundary ==
  [][ev'.op = "animate" =>
       \A c \in ev'.stepped :
         LET v == channel_pulse_value[c]
             d == channel_pulse_inc[c]
             w == channel_pulse_value'[c]
             e == channel_pulse_inc'[c]
         IN  /\ (v = 254 /\ d = 1) => (w = 255 /\ e = 1)
             /\ (v = 255 /\ d = 1) => (w = 255 /\ e = -1)
             /\ (v = 255 /\ d = -1) => (w = 254 /\ e = -1)
             /\ (v = 1 /\ d = -1) => (w = 0 /\ e = -1)
             /\ (v = 0 /\ d = -1) => (w = 0 /\ e = 1)
             /\ (v = 0 /\ d = 1) => (w = 1 /\ e = 1)
             /\ (v + d \in 0 .. 255) => (w = v + d /\ e = d)]_vars

\* channel one has come down to 0 and its direction has turned upwards
C5_Witness ==
  /\ ev.op = "animate"
  /\ 0 \in ev.stepped
  /\ channel_pulse_value[0] = 0
  /\ channel_pulse_inc[0] = 1

\* C6: after any sequence of commands and ticks, the pulse_value an animator
\* step leaves is within 0 .. 255, and every write of the animator is a duty
\* within 0 .. 255, the pulse_value of the channel of that pin.
C6_PulseRange ==
  ev.op = "animate" =>
    /\ \A c \in ev.stepped : channel_pulse_value[c] \in 0 .. 255
    /\ \A i \in 1 .. Len(writes) :
         /\ writes[i].out.kind = "analog"
         /\ writes[i].out.level \in 0 .. 255
         /\ \E c \in ev.stepped :
              /\ writes[i].pin = channel_pins[c]
              /\ writes[i].out.level = channel_pulse_value[c]

\* channel two has been held at 255 by the clamp: its direction is downwards
C6_Witness ==
  /\ ev.op = "animate"
  /\ 1 \in ev.stepped
  /\ channel_pulse_value[1] = 255
  /\ channel_pulse_inc[1] = -1
  /\ Len(writes) >= 1

\* C7: a MODE_CHANGE that brings a channel into PULSE mode leaves its
\* pulse_value 0, its direction +1 and its last step time the current time,
\* whatever an earlier stay in PULSE mode left there.
C7_PulseEntry ==
  (Dispatched("MODE_CHANGE") /\ channel_mode[ev.cmd.channel] = MODE_PULSE) =>
    /\ channel_pulse_value[ev.cmd.channel] = 0
    /\ channel_pulse_inc[ev.cmd.channel] = 1
    /\ channel_time[ev.cmd.channel] = now

\* a channel comes back into PULSE mode with a pulse_value of an earlier stay
C7_Witness ==
  /\ Dispatched("MODE_CHANGE")
  /\ channel_mode[ev.cmd.channel] = MODE_PULSE
  /\ ev.before.mode = MODE_PWM
  /\ ev.before.pvalue > 0
  /\ ev.before.time # now

\* C8: a MODE_CHANGE writes the pin of its channel as the mode entered says
\* and writes nothing else: low on entering OFF, high on entering ON, the
\* stored pwm level on entering PWM, nothing on entering PULSE.
C8_EntryWrite ==
  Dispatched("MODE_CHANGE") =>
    LET c == ev.cmd.channel
        m == channel_mode[c]
        W(out) == <<[pin |-> channel_pins[c], out |-> out]>>
    IN  /\ m = MODE_OFF => writes = W(Digital(LOW))
        /\ m = MODE_ON => writes = W(Digital(HIGH))
        /\ m = MODE_PWM => writes = W(Analog(channel_pwm[c]))
        /\ m = MODE_PULSE => writes = << >>
        /\ Len(writes) <= 1
        /\ writes # << >> => pin[channel_pins[c]] = writes[1].out

\* a channel enters PWM mode with a level that a potentiometer has set
C8_Witness ==
  /\ Dispatched("MODE_CHANGE")
  /\ channel_mode[ev.cmd.channel] = MODE_PWM
  /\ channel_pwm[ev.cmd.channel] # 255
  /\ Len(writes) = 1

\* C9: a POT_CHANGE for a channel in PWM mode sets pwm_level to value / 4,
\* writes that duty to the pin of the channel and nothing else, and leaves
\* the mode, the pulse period, pulse_value and the direction as they were.
C9_PotInPwm ==
  (Dispatched("POT_CHANGE") /\ ev.before.mode = MODE_PWM) =>
    LET c == ev.cmd.channel
        level == channel_pwm[c]
    IN  /\ ev.cmd.value >= 0 =>
             (4 * level <= ev.cmd.value /\ ev.cmd.value < 4 * level + 4)
        /\ writes = <<[pin |-> channel_pins[c], out |-> Analog(level)]>>
        /\ pin[channel_pins[c]] = Analog(level)
        /\ channel_mode[c] = MODE_PWM
        /\ channel_pulse[c] = ev.before.pulse
        /\ channel_pulse_value[c] = ev.before.pvalue
        /\ channel_pulse_inc[c] = ev.before.pinc

\* channel one in PWM mode has taken the level 128 from the reading 512
C9_Witness ==
  /\ Dispatched("POT_CHANGE")
  /\ ev.before.mode = MODE_PWM
  /\ ev.before.pwm = 255
  /\ ev.cmd.value = 512
  /\ channel_pwm[0] = 128

\* C10: a POT_CHANGE for a channel in OFF or ON mode changes no field of any
\* channel record and writes no pin.
C10_PotIgnored ==
  [][(DispatchedNext("POT_CHANGE")
        /\ channel_mode[ev'.cmd.channel] \in {MODE_OFF, MODE_ON}) =>
       /\ RecordsUnchanged
       /\ pin' = pin
       /\ writes' = << >>]_vars

\* a reading of 512 has arrived for channel one while it is ON
C10_Witness ==
  /\ Dispatched("POT_CHANGE")
  /\ ev.cmd.value = 512
  /\ ev.before.mode = MODE_ON
  /\ channel_mode[0] = MODE_ON

\* C11: a POT_CHANGE for a channel in PULSE mode sets the pulse period to
\* value / 4 (truncated towards zero) and does nothing else: the mode, the
\* pwm level, pulse_value, the direction and the last step time are as
\* before and the dispatch writes no pin.
C11_PotInPulse ==
  (Dispatched("POT_CHANGE") /\ ev.before.mode = MODE_PULSE) =>
    LET c == ev.cmd.channel
        period == channel_pulse[c]
        value == ev.cmd.value
    IN  /\ IF value >= 0 THEN 4 * period <= value /\ value < 4 * period + 4
                          ELSE 4 * period - 4 < value /\ value <= 4 * period
        /\ channel_mode[c] = MODE_PULSE
        /\ channel_pwm[c] = ev.before.pwm
        /\ channel_pulse_value[c] = ev.before.pvalue
        /\ channel_pulse_inc[c] = ev.before.pinc
        /\ channel_time[c] = ev.before.time
        /\ writes = << >>

\* channel one in PULSE mode has taken the period 128 from the reading 512,
\* later than it entered the mode
C11_Witness ==
  /\ Dispatched("POT_CHANGE")
  /\ ev.before.mode = MODE_PULSE
  /\ ev.before.pulse = 1024
  /\ ev.cmd.value = 512
  /\ channel_pulse[0] = 128
  /\ channel_time[0] # now

\* the first four bytes of the message are neither "MODE" nor "POTS"
UnknownCode(buf) == SubSeq(buf, 1, 4) \notin {MODE_TEXT, POTS_TEXT}

\* C12: a received message whose first four bytes are neither "MODE" nor
\* "POTS" is dropped, whatever its channel and value fields are: no array
\* is indexed, no field of a channel record changes, no pin is written, and
\* the tick goes on with the animator.
C12_UnknownDropped ==
  [][(ev'.op = "command" /\ UnknownCode(ev'.buf)) =>
       /\ ev'.indexed = {}
       /\ RecordsUnchanged
       /\ pin' = pin
       /\ writes' = << >>
       /\ pc' = "animate"]_vars

\* "MODS 3    512" has arrived while channel one is in PWM mode
C12_Witness ==
  /\ ev.op = "command"
  /\ UnknownCode(ev.buf)
  /\ ev.cmd.channel = 2
  /\ ev.cmd.value = 512
  /\ channel_mode[0] = MODE_PWM
  /\ pin[CHANNEL_ONE_PIN] = Analog(255)

\* C13: in every reachable state, whatever readings the POTS messages
\* carry, the pwm level of every channel is within 0 .. 255, and so is
\* every duty written to the pin of a channel in PWM mode.
C13_PwmRange ==
  /\ \A c \in Channels : channel_pwm[c] \in 0 .. 255
  /\ \A c \in Channels :
       (channel_mode[c] = MODE_PWM /\ pin[channel_pins[c]].kind = "analog")
         => pin[channel_pins[c]].level \in 0 .. 255

\* C14: channel one, OFF at the start, is in PULSE mode with pulse_value 0
\* after three MODE_CHANGE commands.  While it stays in PULSE mode (the
\* node is awake, no further command comes for it) and ticks later than
\* the pulse period keep coming, pulse_value does not decrease before it
\* has reached 255 (it starts upwards, does not decrease while the
\* direction is upwards, and the direction turns downwards only at 255), it
\* reaches 255, and after that it decreases.
C14_Ramp ==
  /\ []((ev.op = "command" /\ received = 3) =>
          (channel_mode[0] = MODE_PULSE /\ channel_pulse_value[0] = 0
             /\ channel_pulse_inc[0] = 1))
  /\ [][(channel_mode[0] = MODE_PULSE /\ channel_mode'[0] = MODE_PULSE
           /\ channel_pulse_inc[0] = 1) =>
          /\ channel_pulse_value'[0] >= channel_pulse_value[0]
          /\ channel_pulse_inc'[0] = -1 => channel_pulse_value[0] = 255]_vars
  /\ (channel_mode[0] = MODE_PULSE /\ channel_pulse_inc[0] = 1)
       ~> (channel_pulse_value[0] = 255 \/ channel_mode[0] # MODE_PULSE)
  /\ (channel_mode[0] = MODE_PULSE /\ channel_pulse_value[0] = 255)
       ~> (channel_pulse_value[0] < 255 \/ channel_mode[0] # MODE_PULSE)

\* channel one, in PULSE mode by three commands, has been up to 255 and has
\* come down to 254
C14_Witness ==
  /\ received = 3
  /\ channel_mode[0] = MODE_PULSE
  /\ channel_pulse_value[0] = 254
  /\ channel_pulse_inc[0] = -1

\* C15: the dispatch of a MODE or POTS command for a channel that exists
\* changes the record of that channel only and writes the pin of that
\* channel only: the mode, pwm level, pulse period, pulse_value, direction,
\* last step time and output of the other channel are as before.
C15_OneChannel ==
  [][(DispatchedNext("MODE_CHANGE") \/ DispatchedNext("POT_CHANGE")) =>
       /\ \A o \in Channels \ {ev'.cmd.channel} :
            /\ channel_mode'[o] = channel_mode[o]
            /\ channel_pwm'[o] = channel_pwm[o]
            /\ channel_pulse'[o] = channel_pulse[o]
            /\ channel_pulse_value'[o] = channel_pulse_value[o]
            /\ channel_pulse_inc'[o] = channel_pulse_inc[o]
            /\ channel_time'[o] = channel_time[o]
            /\ pin'[channel_pins[o]] = pin[channel_pins[o]]
       /\ \A i \in 1 .. Len(writes') :
            writes'[i].pin = channel_pins[ev'.cmd.channel]]_vars

\* a POTS command has written the pin of channel two, in PWM mode, while
\* channel one is ON
C15_Witness ==
  /\ Dispatched("POT_CHANGE")
  /\ ev.cmd.channel = 1
  /\ ev.before.mode = MODE_PWM
  /\ Len(writes) = 1
  /\ channel_mode[0] = MODE_ON
  /\ pin[CHANNEL_ONE_PIN] = Digital(HIGH)

\* the duty a pin carries: a digital level is the duty 0 or 255
Duty(out) ==
  IF out.kind = "digital" THEN (IF out.level = HIGH THEN 255 ELSE 0)
                          ELSE out.level

\* the output of channel c is the steady value of its mode
Steady(c) ==
  LET duty == Duty(pin[channel_pins[c]])
  IN  /\ channel_mode[c] = MODE_OFF => duty = 0
      /\ channel_mode[c] = MODE_ON => duty = 255
      /\ channel_mode[c] = MODE_PWM => duty = channel_pwm[c]

\* C16: at the end of every awake tick the output of each channel is the
\* steady value of its mode (low in OFF, high in ON, the pwm level in PWM),
\* after any sequence of commands, ticks and sleep intervals, the first
\* awake tick after a sleep included.
C16_SteadyOutputs ==
  ev.op = "animate" => \A c \in Channels : Steady(c)

\* the animator leaves channel c as it is and writes nothing to its pin
AnimatorIdle(c) ==
  /\ channel_pulse_value'[c] = channel_pulse_value[c]
  /\ channel_pulse_inc'[c] = channel_pulse_inc[c]
  /\ channel_time'[c] = channel_time[c]
  /\ pin'[channel_pins[c]] = pin[channel_pins[c]]
  /\ \A i \in 1 .. Len(writes') : writes'[i].pin # channel_pins[c]

\* C17: in an awake tick the dispatch, if any, is complete before the
\* animator runs, and at most one message is dispatched: a dispatch is
\* the first step of its tick and the animator the next.  The animator
\* that follows a MODE_CHANGE into PULSE finds the channel in PULSE mode
\* with pulse_value 0 and direction +1, so it leaves them or steps to 1; a
\* channel that is not in PULSE mode, as after a MODE_CHANGE out of it, is
\* neither stepped nor written by the animator.
C17_DispatchFirst ==
  [][/\ ev'.op = "command" =>
          (pc = "loop" /\ pc' = "animate" /\ received' = received + 1)
     /\ pc = "animate" => (ev'.op = "animate" /\ received' = received)
     /\ (DispatchedNext("MODE_CHANGE")
           /\ channel_mode'[ev'.cmd.channel] = MODE_PULSE) =>
          /\ channel_pulse_value'[ev'.cmd.channel] = 0
          /\ channel_pulse_inc'[ev'.cmd.channel] = 1
     /\ (Dispatched("MODE_CHANGE") /\ pc = "animate"
           /\ channel_mode[ev.cmd.channel] = MODE_PULSE) =>
          /\ channel_mode'[ev.cmd.channel] = MODE_PULSE
          /\ channel_pulse_inc'[ev.cmd.channel] = 1
          /\ channel_pulse_value'[ev.cmd.channel] =
               (IF ev.cmd.channel \in ev'.stepped THEN 1 ELSE 0)
     /\ ev'.op = "animate" =>
          \A c \in Channels :
            channel_mode[c] # MODE_PULSE =>
              (c \notin ev'.stepped /\ AnimatorIdle(c)
                 /\ channel_mode'[c] = channel_mode[c])]_vars

\* the animator has run over channel one, which has left PULSE mode for OFF
\* with a pulse_value above 0
C17_Witness ==
  /\ ev.op = "animate"
  /\ channel_mode[0] = MODE_OFF
  /\ channel_pulse_value[0] > 0
  /\ pin[CHANNEL_ONE_PIN] = Digital(LOW)

\* a reading of millis() as the milliseconds since the clock last passed 0,
\* negative in the half of the range before it does
SinceWrap(x) ==
  IF x[1] >= Half \div 2 THEN (x[1] - Half) * Half + x[2]
                          ELSE x[1] * Half + x[2]

\* the milliseconds between the last step of channel c and the read of
\* millis() in the step being taken
Elapsed(c) == SinceWrap(now') - SinceWrap(channel_time[c])

\* C18: the animator steps a channel only if the channel is in PULSE mode
\* and more milliseconds than the pulse period, strictly, have passed since
\* its last step (and does step it then, the period not being negative);
\* a channel it does not step keeps its pulse_value, direction, last step
\* time and output; a step changes pulse_value by at most 1, writes the new
\* value to the pin of the channel and sets the last step time to the time
\* read.
C18_AnimatorStep ==
  [][ev'.op = "animate" =>
       \A c \in Channels :
         /\ c \in ev'.stepped =>
              /\ channel_mode[c] = MODE_PULSE
              /\ Elapsed(c) > channel_pulse[c]
              /\ channel_pulse_value'[c] - channel_pulse_value[c]
                   \in {-1, 0, 1}
              /\ pin'[channel_pins[c]] = Analog(channel_pulse_value'[c])
              /\ \E i \in 1 .. Len(writes') :
                   writes'[i] = [pin |-> channel_pins[c],
                                 out |-> Analog(channel_pulse_value'[c])]
              /\ channel_time'[c] = now'
         /\ c \notin ev'.stepped => AnimatorIdle(c)
         /\ (channel_mode[c] = MODE_PULSE /\ channel_pulse[c] >= 0
               /\ Elapsed(c) > channel_pulse[c]) => c \in ev'.stepped]_vars

\* the animator has left channel one alone, in PULSE mode with period 0 and
\* stepped earlier in this millisecond: the time elapsed equals the period
C18_Witness ==
  /\ ev.op = "animate"
  /\ channel_mode[0] = MODE_PULSE
  /\ 0 \notin ev.stepped
  /\ channel_pulse[0] = 0
  /\ channel_time[0] = now
  /\ channel_pulse_value[0] > 0

\* C19: a sleep interval changes no channel record: the step that enters
\* the sleep branch and every powerDown leave the mode, pwm level, pulse
\* period, pulse_value, direction and last step time of each channel as
\* they are, so after waking they are what they were before; a channel
\* record changes only in a step that dispatches a MODE or POTS command or
\* in a run of the animator that steps a channel.
C19_SleepKeepsRecords ==
  [][/\ (pc = "sleep" \/ pc' = "sleep"
           \/ ev'.op \in {"sleep", "powerDown"}) => RecordsUnchanged
     /\ ~RecordsUnchanged =>
          \/ ev'.op = "command" /\ ev'.cmd.kind # "NONE"
          \/ ev'.op = "animate" /\ ev'.stepped # {}]_vars

\* the node has woken from a sleep with channel one in PULSE mode at the
\* period 128 a potentiometer has set
C19_Witness ==
  /\ ev.op = "powerDown"
  /\ pc = "loop"
  /\ channel_mode[0] = MODE_PULSE
  /\ channel_pulse[0] = 128
  /\ channel_pulse_inc[0] = 1

\* C20: the step condition is right across the wrap of the 32 bit clock:
\* a channel in PULSE mode is stepped by a run of the animator exactly if
\* more milliseconds than its pulse period have passed since its last step
\* time, also when that time was stamped before millis() wrapped to 0 and
\* the animator runs after; a step stamps the time read.
C20_StepAcrossWrap ==
  [][ev'.op = "animate" =>
       \A c \in Channels :
         (channel_mode[c] = MODE_PULSE /\ channel_pulse[c] >= 0) =>
           /\ c \in ev'.stepped <=> Elapsed(c) > channel_pulse[c]
           /\ c \in ev'.stepped => channel_time'[c] = now']_vars

\* channel one, at the period 128, has been stepped at most 128 ms after
\* the wrap: its last step time before was stamped before the wrap
C20_Witness ==
  /\ epoch = WrapEve
  /\ ev.op = "animate"
  /\ 0 \in ev.stepped
  /\ channel_pulse[0] = 128
  /\ now[1] = 0
  /\ now[2] <= 128
  /\ channel_time[0] = now

====
